---- MODULE Spec2Model ----
(***************************************************************************)
(* Model of the Hereditas build pipeline (lib/Builder.js): Builder.build   *)
(* and the helpers it calls (_scanContent, includePath, _deriveKey,        *)
(* _encryptContent, _encryptStream, _createIndex).                         *)
(*                                                                         *)
(* Conventions.  A JavaScript string is a sequence of characters.  A value *)
(* that may be null/undefined is a sequence of length 0 (unset) or 1 (set).*)
(* Random bytes are a nondeterministic choice from a small set of values.  *)
(***************************************************************************)
EXTENDS Integers, Sequences, FiniteSets, TLC

(***************************************************************************)
(* Bounds of the model                                                     *)
(***************************************************************************)
\* number of distinct values randomBytes(12).toString('hex') can return
NumDist == 2
\* number of distinct values randomBytes(32) / randomBytes(12) can return
\* for a file key / an IV
NumKeys == 2
\* number of distinct values randomBytes(64) can return for the salt
NumSalts == 2
\* number of entries of a directory listing, where the listings are enumerated
MaxEntries == 2
\* number of calls of build() on one Builder
MaxBuilds == 2

(***************************************************************************)
(* Strings                                                                 *)
(***************************************************************************)
None == <<>>
Some(v) == <<v>>
IsSet(o) == Len(o) = 1
Get(o) == o[1]

endsWith(s, suffix) ==
    /\ Len(s) >= Len(suffix)
    /\ SubSeq(s, Len(s) - Len(suffix) + 1, Len(s)) = suffix

startsWith(s, prefix) ==
    /\ Len(s) >= Len(prefix)
    /\ SubSeq(s, 1, Len(prefix)) = prefix

\* the platform's path.sep: '/' on POSIX, '\' on Windows
Seps == {"/", "\\"}

\* positions of s holding a separator path.basename splits at: POSIX splits
\* at '/' only, Windows at both '/' and '\'
SepPositions(s, pathSep) ==
    {k \in 1..Len(s) : s[k] = "/" \/ (pathSep = "\\" /\ s[k] = "\\")}

Max(S) == CHOOSE m \in S : \A n \in S : n <= m

\* path.basename(str) for a path without a drive letter: trailing separators
\* are dropped, then what follows the last separator is taken
basename(s, pathSep) ==
    LET end == Max({0} \cup ((1..Len(s)) \ SepPositions(s, pathSep)))
        t == SubSeq(s, 1, end)
    IN IF SepPositions(t, pathSep) = {} THEN t
       ELSE SubSeq(t, Max(SepPositions(t, pathSep)) + 1, Len(t))

DotDirectory == <<".", "d", "i", "r", "e", "c", "t", "o", "r", "y">>
DotDSStore == <<".", "D", "S", "_", "S", "t", "o", "r", "e">>
DotAppleDouble == <<".", "A", "p", "p", "l", "e", "D", "o", "u", "b", "l", "e">>
DotLSOverride == <<".", "L", "S", "O", "v", "e", "r", "r", "i", "d", "e">>
ThumbsDb == <<"T", "h", "u", "m", "b", "s", ".", "d", "b">>
ThumbsDbEncryptable == ThumbsDb \o <<":", "e", "n", "c", "r", "y", "p", "t", "a", "b", "l", "e">>
desktopIni == <<"d", "e", "s", "k", "t", "o", "p", ".", "i", "n", "i">>
DesktopIni == <<"D", "e", "s", "k", "t", "o", "p", ".", "i", "n", "i">>

\* includePath(str) without the test for 'Desktop.ini'
includePath_NoDesktopIni(str, pathSep) ==
    LET base == basename(str, pathSep) IN
    IF \/ endsWith(base, <<"~">>)
       \/ base = DotDirectory
       \/ base = DotDSStore
       \/ base = DotAppleDouble
       \/ base = DotLSOverride
       \/ startsWith(base, <<".", "_">>)
       \/ base = ThumbsDb
       \/ base = ThumbsDbEncryptable
       \/ base = desktopIni
    THEN FALSE
    ELSE TRUE

\* includePath(str): false for operating system metadata
includePath(str, pathSep) ==
    LET base == basename(str, pathSep) IN
    IF \/ endsWith(base, <<"~">>)
       \/ base = DotDirectory
       \/ base = DotDSStore
       \/ base = DotAppleDouble
       \/ base = DotLSOverride
       \/ startsWith(base, <<".", "_">>)
       \/ base = ThumbsDb
       \/ base = ThumbsDbEncryptable
       \/ base = desktopIni
       \/ base = DesktopIni
    THEN FALSE
    ELSE TRUE

(***************************************************************************)
(* The content directory                                                   *)
(*                                                                         *)
(* An entry of a directory listing is a file or a directory.  stat tells   *)
(* whether fs.stat succeeds on it, readable whether fs.readdir succeeds.   *)
(* data is the byte stream of a file, in chunks.                           *)
(***************************************************************************)
File(name, data) ==
    [name |-> name, isDirectory |-> FALSE, stat |-> TRUE, readable |-> TRUE,
     data |-> data, list |-> <<>>]
Dir(name, readable, list) ==
    [name |-> name, isDirectory |-> TRUE, stat |-> TRUE, readable |-> readable,
     data |-> <<>>, list |-> list]
Broken(name) ==
    [name |-> name, isDirectory |-> FALSE, stat |-> FALSE, readable |-> FALSE,
     data |-> <<>>, list |-> <<>>]

aMd == <<"a", ".", "m", "d">>
bTxt == <<"b", ".", "t", "x", "t">>
sub == <<"s", "u", "b">>

Digit(k) == <<"0", "1", "2", "3", "4", "5", "6", "7", "8", "9">>[k + 1]

ContentDirs ==
    { \* the empty package
      Dir(<<>>, TRUE, <<>>),
      \* two files: a.md and the empty sub/b.txt
      Dir(<<>>, TRUE, << File(aMd, <<"h">>),
                         Dir(sub, TRUE, << File(bTxt, <<>>) >>) >>),
      \* operating system metadata beside and below the content
      Dir(<<>>, TRUE, << File(DotDSStore, <<"m">>),
                         Dir(<<".", "_", "r">>, FALSE, <<>>),
                         Dir(sub, TRUE, << File(<<"b", "~">>, <<"o">>),
                                           File(bTxt, <<"h", "i">>) >>) >>),
      \* a subdirectory that cannot be read
      Dir(<<>>, TRUE, << File(aMd, <<"h">>), Dir(sub, FALSE, <<>>) >>),
      \* an entry fs.stat fails on
      Dir(<<>>, TRUE, << Broken(bTxt) >>),
      \* a root that cannot be read
      Dir(<<>>, FALSE, <<>>) }

\* the descriptor _scanContent pushes: {path, size}; display, processed,
\* dist and tag are not set yet
Descriptor(el, stat) ==
    [path |-> el, size |-> Len(stat.data),
     display |-> None, processed |-> None, dist |-> None, tag |-> None]

\* scanFolder(folder): the loop over list from entry e on; acc is the state
\* of the shared result list, ok is FALSE once a readdir or stat has rejected
RECURSIVE scanList(_, _, _, _, _)
scanList(folder, list, e, acc, pathSep) ==
    IF e > Len(list) THEN [ok |-> TRUE, result |-> acc]
    ELSE LET el == folder \o list[e].name IN
         IF ~includePath(el, pathSep)
         THEN scanList(folder, list, e + 1, acc, pathSep)
         ELSE IF ~list[e].stat
         THEN [ok |-> FALSE, result |-> acc]
         ELSE IF list[e].isDirectory
         THEN IF ~list[e].readable
              THEN [ok |-> FALSE, result |-> acc]
              ELSE LET r == scanList(el \o <<pathSep>>, list[e].list, 1, acc, pathSep) IN
                   IF ~r.ok THEN r
                   ELSE scanList(folder, list, e + 1, r.result, pathSep)
         ELSE scanList(folder, list, e + 1,
                       Append(acc, Descriptor(el, list[e])), pathSep)

\* _scanContent() with a loop that starts at the second entry of the root
_scanContent_FromSecond(root, pathSep) ==
    IF ~root.readable THEN [ok |-> FALSE, result |-> <<>>]
    ELSE scanList(<<>>, root.list, 2, <<>>, pathSep)

\* _scanContent(): scanFolder() on the content root
_scanContent(root, pathSep) ==
    IF ~root.readable THEN [ok |-> FALSE, result |-> <<>>]
    ELSE scanList(<<>>, root.list, 1, <<>>, pathSep)


\* the bytes of the file at path, as a read stream on it would deliver them
RECURSIVE readFile(_, _, _, _, _)
readFile(folder, list, e, p, pathSep) ==
    IF e > Len(list) THEN <<>>
    ELSE LET el == folder \o list[e].name IN
         IF el = p /\ ~list[e].isDirectory THEN list[e].data
         ELSE IF list[e].isDirectory /\ startsWith(p, el \o <<pathSep>>)
         THEN readFile(el \o <<pathSep>>, list[e].list, 1, p, pathSep)
         ELSE readFile(folder, list, e + 1, p, pathSep)

(***************************************************************************)
(* Conversions and cryptographic primitives                                *)
(***************************************************************************)
\* randomBytes returns one of n values.  The values have no structure, so
\* the draws are taken up to renaming: a draw returns a value already seen
\* or the least value not seen yet
Draws(n, seen) == { k \in 1..n : \A j \in 1..(k - 1) : j \in seen }

\* a chunk of a stream: bytes of a content file as read ("raw"), as rewritten
\* by pre-processing ("html"), or the text of the index ("json")
RawChunk(b) == [kind |-> "raw", byte |-> b, json |-> <<>>]
HtmlChunk(b) == [kind |-> "html", byte |-> b, json |-> <<>>]

\* JSON.stringify of a content list: a text; a property that is undefined
\* is left out of the text, which the unset value stands for
JSONstringify(list) == [kind |-> "json", byte |-> "", json |-> list]
\* JSON.parse of such a text
JSONparse(text) == text.json

\* Buffer.toString('hex') of the k-th value of randomBytes(12)
toHex(k) == <<"x", Digit(k)>>

\* a value that is a Buffer of bytes, as randomBytes or getAuthTag return it
Buffer(buf) == [base64 |-> None, raw |-> Some(buf)]

\* Buffer.toString('base64'): the base64 text of the bytes
toBase64(buf) == [base64 |-> Some(buf), raw |-> None]

\* the name of the index in distDir
IndexName == <<"_", "i", "n", "d", "e", "x">>

DistNames == { toHex(k) : k \in 1..NumDist }
FileNames == DistNames \cup {IndexName}

\* the configuration
Passphrase == <<"p", "w">>
AppToken == <<"t", "k">>
DistDirPath == <<"dist">>
Auth0Domain == <<"example.auth0.com">>
Auth0ClientId == <<"client">>
Pbkdf2Iterations == 100000
Argon2Memory == 65536
KdfSelectors == {"pbkdf2", "argon2", "md5", "undefined"}

\* _deriveKey(passphrase, salt) for a supported selector
_deriveKey(selector, passphrase, salt) ==
    IF selector = "pbkdf2"
    THEN [kdf |-> "pbkdf2", pass |-> passphrase, salt |-> salt,
          param |-> Pbkdf2Iterations, len |-> 32]
    ELSE [kdf |-> "argon2id", pass |-> passphrase, salt |-> salt,
          param |-> Argon2Memory, len |-> 32]

\* as SupportedKdf, with the last branch taken for every other selector
SupportedKdf_Any(selector) == TRUE

\* the selectors _deriveKey has a branch for
SupportedKdf(selector) == selector = "pbkdf2" \/ selector = "argon2"

\* kw.encrypt(masterKey, fileKey)
kwEncrypt(mk, fileKey) == [item |-> "wrappedKey", key |-> fileKey, iv |-> 0,
                           under |-> Some(mk), of |-> <<>>]
\* the IV as written to the output
ivItem(fileIV) == [item |-> "iv", key |-> 0, iv |-> fileIV,
                   under |-> None, of |-> <<>>]
\* the ciphertext the aes-256-gcm cipher emits for one chunk of input
cipherUpdate(fileKey, fileIV, chunk) ==
    [item |-> "ciphertext", key |-> fileKey, iv |-> fileIV,
     under |-> None, of |-> <<chunk>>]
\* cipher.getAuthTag() after the chunks plain have gone through the cipher
getAuthTag(fileKey, fileIV, plain) ==
    [item |-> "tag", key |-> fileKey, iv |-> fileIV,
     under |-> None, of |-> plain]
\* a hole of a file: a position no stream has written
Hole == [item |-> "hole", key |-> 0, iv |-> 0, under |-> None, of |-> <<>>]
\* what a previous build left in distDir
OldItem == [item |-> "old", key |-> 0, iv |-> 0, under |-> None, of |-> <<>>]


(***************************************************************************)
(* State                                                                   *)
(***************************************************************************)
VARIABLES
    pc,          \* position of build(): "idle", a stage, "done" or "rejected"
    step,        \* position inside _encryptContent / _createIndex / _encryptStream
    kdf,         \* this._config.get('kdf')
    contentDir,  \* the directory tree at this._config.get('contentDir')
    pathSep,     \* path.sep
    distDir,     \* the files of this._config.get('distDir'): name -> content
    keySalt,     \* this.keySalt
    indexTag,    \* this.indexTag
    hasErrors,   \* this.hasErrors
    content,     \* build(): content, as returned by _scanContent
    masterKey,   \* build(): masterKey
    result,      \* _encryptContent(): result
    i,           \* _encryptContent(): the loop variable
    cur,         \* locals of the running _encryptContent iteration / _encryptStream
    streams,     \* the write streams created so far, in creation order
    uncaught,    \* an 'error' event was emitted on a stream without listener
    trace,       \* the stages build() has started, in order
    error,       \* the error build() rejected with
    appParams,   \* the parameters handed to webpack
    webpackStats,\* the stats webpack resolved with
    builds,      \* the number of calls of build() on this Builder
    saltOf,      \* the call of build() that generated this.keySalt, 0 for none
    drawn,       \* the file key and IV drawn by each call of _encryptStream of
                 \* this build(), in the order of the calls; 0 for not drawn
    call,        \* a call of includePath on its own: argument and result
    initCmd      \* the state of a run of the init command

vars == <<pc, step, kdf, contentDir, pathSep, distDir, keySalt, indexTag,
          hasErrors, content, masterKey, result, i, cur, streams, uncaught,
          trace, error, appParams, webpackStats, builds, saltOf, drawn,
          call, initCmd>>

Stages == <<"CLEAN", "SCAN", "SALT", "DERIVE", "ENCRYPT_CONTENT",
            "ENCRYPT_INDEX", "BUNDLE">>

\* no call of includePath on its own
NoCall == [str |-> <<>>, pathSep |-> "/", ret |-> None]

\* the init command is not run
NoInitCmd == [pc |-> "off", cwd |-> {}, before |-> {}, content |-> "",
              dist |-> "", welcome |-> FALSE, error |-> None]

NoCur == [dist |-> <<>>, out |-> 0, fileKey |-> 0, fileIV |-> 0,
          inStream |-> <<>>, plain |-> <<>>]

\* fs.createWriteStream(path.join(distDir, name)): nothing is opened or
\* written yet, and no listener is registered
createWriteStream(name, stage) ==
    [name |-> name, stage |-> stage, opened |-> FALSE, written |-> <<>>,
     flushed |-> 0, ended |-> FALSE, errored |-> FALSE, promise |-> "none"]

\* what a previous build can have left in distDir
OldDistDirs ==
    { [n \in FileNames |-> None],
      [n \in FileNames |-> IF n = IndexName \/ n = toHex(1)
                           THEN Some(<<OldItem>>) ELSE None] }

\* the configurations and directories a build is started with: a package
\* of at most one file with every selector, separator and distDir, a larger
\* package with every selector, of the supported ones under pbkdf2 on POSIX
Configurations ==
    { c \in [kdf : KdfSelectors, contentDir : ContentDirs, pathSep : Seps,
             distDir : OldDistDirs] :
        Len(_scanContent(c.contentDir, c.pathSep).result) > 1 =>
            /\ c.kdf # "argon2"
            /\ c.pathSep = "/"
            /\ IsSet(c.distDir[IndexName]) }

\* a Builder constructed on configuration c, and nothing else going on
Constructed(c) ==
    /\ pc = "idle"
    /\ step = ""
    /\ kdf = c.kdf
    /\ contentDir = c.contentDir
    /\ pathSep = c.pathSep
    /\ distDir = c.distDir
    /\ keySalt = None
    /\ indexTag = None
    /\ hasErrors = FALSE
    /\ content = <<>>
    /\ masterKey = None
    /\ result = <<>>
    /\ i = 0
    /\ cur = NoCur
    /\ streams = <<>>
    /\ uncaught = FALSE
    /\ trace = <<>>
    /\ error = None
    /\ appParams = None
    /\ webpackStats = None
    /\ builds = 0
    /\ saltOf = 0
    /\ drawn = <<>>

\* new Builder(passphrase, config)
Init ==
    /\ pc = "idle"
    /\ step = ""
    /\ \E c \in Configurations :
         /\ kdf = c.kdf
         /\ contentDir = c.contentDir
         /\ pathSep = c.pathSep
         /\ distDir = c.distDir
    /\ keySalt = None
    /\ indexTag = None
    /\ hasErrors = FALSE
    /\ content = <<>>
    /\ masterKey = None
    /\ result = <<>>
    /\ i = 0
    /\ cur = NoCur
    /\ streams = <<>>
    /\ uncaught = FALSE
    /\ trace = <<>>
    /\ error = None
    /\ appParams = None
    /\ webpackStats = None
    /\ builds = 0
    /\ saltOf = 0
    /\ drawn = <<>>
    /\ call = NoCall
    /\ initCmd = NoInitCmd

\* build() is running and the process is alive
Running(stage) == pc = stage /\ ~uncaught

\* an awaited promise rejects (or a call throws): build() rejects
Reject(reason) ==
    /\ pc' = "rejected"
    /\ error' = Some(reason)

\* the await of a stage returns and the next stage is started
Start(stage) ==
    /\ pc' = stage
    /\ trace' = Append(trace, stage)

(***************************************************************************)
(* build(): steps 1 to 4                                                   *)
(***************************************************************************)
\* as build, with the selector checked before anything else is done
build_ChecksSelector ==
    /\ Running("idle")
    /\ IF kdf \in {"pbkdf2", "argon2"}
       THEN Start("CLEAN") /\ UNCHANGED error
       ELSE Reject("Invalid key derivation function requested") /\ UNCHANGED trace
    /\ builds' = builds + 1
    /\ UNCHANGED <<call, initCmd, saltOf, drawn>>
    /\ UNCHANGED <<step, kdf, contentDir, pathSep, distDir, keySalt, indexTag,
                   hasErrors, content, masterKey, result, i, cur, streams,
                   uncaught, appParams, webpackStats>>

\* build() is called: CleanDirectory(distDir) is started
build ==
    /\ Running("idle")
    /\ Start("CLEAN")
    /\ builds' = builds + 1
    /\ UNCHANGED <<call, initCmd, saltOf, drawn>>
    /\ UNCHANGED <<step, kdf, contentDir, pathSep, distDir, keySalt, indexTag,
                   hasErrors, content, masterKey, result, i, cur, streams,
                   uncaught, error, appParams,
                   webpackStats>>

\* CleanDirectory(dir): the directory without the files it held
CleanDirectory(dir) == [n \in DOMAIN dir |-> None]

\* CleanDirectory resolves; _scanContent() is started
CleanDirectoryDone ==
    /\ Running("CLEAN")
    /\ distDir' = CleanDirectory(distDir)
    /\ Start("SCAN")
    /\ UNCHANGED <<call, initCmd, builds, saltOf, drawn>>
    /\ UNCHANGED <<step, kdf, contentDir, pathSep, keySalt, indexTag,
                   hasErrors, content, masterKey, result, i, cur, streams,
                   uncaught, error, appParams,
                   webpackStats>>

CleanDirectoryFail ==
    /\ Running("CLEAN")
    /\ Reject("clean")
    /\ UNCHANGED <<call, initCmd, builds, saltOf, drawn>>
    /\ UNCHANGED <<step, kdf, contentDir, pathSep, distDir, keySalt, indexTag,
                   hasErrors, content, masterKey, result, i, cur, streams,
                   uncaught, trace, appParams,
                   webpackStats>>

\* _scanContent() resolves with the list or rejects with the error of the
\* readdir or stat that failed; then randomBytes(64) is started
ScanContentDone ==
    /\ Running("SCAN")
    /\ LET r == _scanContent(contentDir, pathSep) IN
       IF r.ok
       THEN /\ content' = r.result
            /\ Start("SALT")
            /\ UNCHANGED error
       ELSE /\ Reject("scan")
            /\ UNCHANGED <<content, trace>>
    /\ UNCHANGED <<call, initCmd, builds, saltOf, drawn>>
    /\ UNCHANGED <<step, kdf, contentDir, pathSep, distDir, keySalt, indexTag,
                   hasErrors, masterKey, result, i, cur, streams, uncaught,
                   appParams,
                   webpackStats>>

\* the salts drawn so far: the one an earlier build() has left in keySalt
SeenSalts == { s \in 1..NumSalts : keySalt = Some(s) }

\* as SaltDone, with a salt that is generated only where keySalt holds none
SaltDone_KeepsSalt ==
    /\ Running("SALT")
    /\ IF IsSet(keySalt) THEN UNCHANGED <<keySalt, saltOf>>
       ELSE /\ \E s \in Draws(NumSalts, SeenSalts) : keySalt' = Some(s)
            /\ saltOf' = builds
    /\ Start("DERIVE")
    /\ UNCHANGED <<call, initCmd, builds, drawn>>
    /\ UNCHANGED <<step, kdf, contentDir, pathSep, distDir, indexTag,
                   hasErrors, content, masterKey, result, i, cur, streams,
                   uncaught, error, appParams,
                   webpackStats>>

\* randomBytes(64) resolves: this.keySalt is set and _deriveKey is called
SaltDone ==
    /\ Running("SALT")
    /\ \E s \in Draws(NumSalts, SeenSalts) : keySalt' = Some(s)
    /\ Start("DERIVE")
    /\ saltOf' = builds
    /\ UNCHANGED <<call, initCmd, builds, drawn>>
    /\ UNCHANGED <<step, kdf, contentDir, pathSep, distDir, indexTag,
                   hasErrors, content, masterKey, result, i, cur, streams,
                   uncaught, error, appParams,
                   webpackStats>>

SaltFail ==
    /\ Running("SALT")
    /\ Reject("randomBytes")
    /\ UNCHANGED <<call, initCmd, builds, saltOf, drawn>>
    /\ UNCHANGED <<step, kdf, contentDir, pathSep, distDir, keySalt, indexTag,
                   hasErrors, content, masterKey, result, i, cur, streams,
                   uncaught, trace, appParams,
                   webpackStats>>

\* _deriveKey throws for a selector it has no branch for
DeriveKeyInvalid ==
    /\ Running("DERIVE")
    /\ ~SupportedKdf(kdf)
    /\ Reject("Invalid key derivation function requested")
    /\ UNCHANGED <<call, initCmd, builds, saltOf, drawn>>
    /\ UNCHANGED <<step, kdf, contentDir, pathSep, distDir, keySalt, indexTag,
                   hasErrors, content, masterKey, result, i, cur, streams,
                   uncaught, trace, appParams,
                   webpackStats>>

\* the key derivation resolves; _encryptContent(masterKey, content) is
\* called and clones the list
DeriveKeyDone ==
    /\ Running("DERIVE")
    /\ SupportedKdf(kdf)
    /\ masterKey' = Some(_deriveKey(kdf, Passphrase \o AppToken, Get(keySalt)))
    /\ result' = JSONparse(JSONstringify(content))
    /\ i' = 1
    /\ step' = "dist"
    /\ Start("ENCRYPT_CONTENT")
    /\ UNCHANGED <<call, initCmd, builds, saltOf, drawn>>
    /\ UNCHANGED <<kdf, contentDir, pathSep, distDir, keySalt, indexTag,
                   hasErrors, content, cur, streams, uncaught, error,
                   appParams,
                   webpackStats>>

\* the key derivation rejects
DeriveKeyFail ==
    /\ Running("DERIVE")
    /\ SupportedKdf(kdf)
    /\ Reject("kdf")
    /\ UNCHANGED <<call, initCmd, builds, saltOf, drawn>>
    /\ UNCHANGED <<step, kdf, contentDir, pathSep, distDir, keySalt, indexTag,
                   hasErrors, content, masterKey, result, i, cur, streams,
                   uncaught, trace, appParams,
                   webpackStats>>


(***************************************************************************)
(* _encryptContent: step 5                                                 *)
(***************************************************************************)
InEncrypt(st) ==
    /\ ~uncaught
    /\ pc \in {"ENCRYPT_CONTENT", "ENCRYPT_INDEX"}
    /\ step = st

\* what content.process() makes of an element and of the bytes of its
\* file: a markdown file is rendered and shown as text, any other file is
\* kept as it is and shown as an attachment
ContentProcess(el, data) ==
    IF endsWith(el.path, <<".", "m", "d">>)
    THEN [el |-> [el EXCEPT !.display = Some("text"), !.processed = Some("markdown")],
          inStream |-> [k \in 1..Len(data) |-> HtmlChunk(data[k])]]
    ELSE [el |-> [el EXCEPT !.display = Some("attach")],
          inStream |-> [k \in 1..Len(data) |-> RawChunk(data[k])]]

\* the values drawn so far for file names (and the names a previous build
\* has left), for file keys and for IVs
SeenDist ==
    { k \in 1..NumDist : \/ \E n \in 1..Len(streams) : streams[n].name = toHex(k)
                         \/ IsSet(distDir[toHex(k)]) }
SeenKeys ==
    { k \in 1..NumKeys : \E n \in 1..Len(streams) :
         Len(streams[n].written) >= 1 /\ streams[n].written[1].key = k }
SeenIVs ==
    { k \in 1..NumKeys : \E n \in 1..Len(streams) :
         Len(streams[n].written) >= 2 /\ streams[n].written[2].iv = k }

\* as EncryptContentDist, with dist stored in the record as soon as it is drawn
EncryptContentDist_AssignsDist ==
    /\ InEncrypt("dist") /\ pc = "ENCRYPT_CONTENT"
    /\ i <= Len(result)
    /\ \E k \in Draws(NumDist, SeenDist) :
         /\ cur' = [NoCur EXCEPT !.dist = toHex(k), !.out = Len(streams) + 1]
         /\ streams' = Append(streams, createWriteStream(toHex(k), pc))
         /\ result' = [result EXCEPT ![i].dist = Some(toHex(k))]
    /\ step' = "process"
    /\ UNCHANGED <<call, initCmd, builds, saltOf, drawn>>
    /\ UNCHANGED <<pc, kdf, contentDir, pathSep, distDir, keySalt, indexTag,
                   hasErrors, content, masterKey, i, uncaught, trace,
                   error, appParams, webpackStats>>

\* an iteration of the loop starts: randomBytes(12) resolves, the output
\* stream is created and content.process() is called
EncryptContentDist ==
    /\ InEncrypt("dist") /\ pc = "ENCRYPT_CONTENT"
    /\ i <= Len(result)
    /\ \E k \in Draws(NumDist, SeenDist) :
         /\ cur' = [NoCur EXCEPT !.dist = toHex(k), !.out = Len(streams) + 1]
         /\ streams' = Append(streams, createWriteStream(toHex(k), pc))
    /\ step' = "process"
    /\ UNCHANGED <<call, initCmd, builds, saltOf, drawn>>
    /\ UNCHANGED <<pc, kdf, contentDir, pathSep, distDir, keySalt, indexTag,
                   hasErrors, content, masterKey, result, i, uncaught, trace,
                   error, appParams,
                   webpackStats>>

\* randomBytes rejects, in _encryptContent or in _encryptStream
RandomBytesFail ==
    /\ \/ InEncrypt("dist") /\ i <= Len(result)
       \/ InEncrypt("fileKey")
       \/ InEncrypt("fileIV")
    /\ Reject("randomBytes")
    /\ UNCHANGED <<call, initCmd, builds, saltOf, drawn>>
    /\ UNCHANGED <<step, kdf, contentDir, pathSep, distDir, keySalt, indexTag,
                   hasErrors, content, masterKey, result, i, cur, streams,
                   uncaught, trace, appParams,
                   webpackStats>>

\* as ContentProcessDone, storing content.el in the first slot of result
ContentProcessDone_FirstSlot ==
    /\ InEncrypt("process")
    /\ LET c == ContentProcess(result[i],
                    readFile(<<>>, contentDir.list, 1, result[i].path, pathSep)) IN
         /\ result' = [result EXCEPT ![1] = c.el]
         /\ cur' = [cur EXCEPT !.inStream = c.inStream]
    /\ step' = "fileKey"
    /\ UNCHANGED <<call, initCmd, builds, saltOf, drawn>>
    /\ UNCHANGED <<pc, kdf, contentDir, pathSep, distDir, keySalt, indexTag,
                   hasErrors, content, masterKey, i, streams, uncaught, trace,
                   error, appParams, webpackStats>>

\* content.process() resolves: result[i] = content.el, and _encryptStream
\* is called on content.inStream
ContentProcessDone ==
    /\ InEncrypt("process")
    /\ LET c == ContentProcess(result[i],
                    readFile(<<>>, contentDir.list, 1, result[i].path, pathSep)) IN
         /\ result' = [result EXCEPT ![i] = c.el]
         /\ cur' = [cur EXCEPT !.inStream = c.inStream]
    /\ step' = "fileKey"
    /\ UNCHANGED <<call, initCmd, builds, saltOf, drawn>>
    /\ UNCHANGED <<pc, kdf, contentDir, pathSep, distDir, keySalt, indexTag,
                   hasErrors, content, masterKey, i, streams, uncaught, trace,
                   error, appParams,
                   webpackStats>>

\* content.process() rejects
ContentProcessFail ==
    /\ InEncrypt("process")
    /\ Reject("process")
    /\ UNCHANGED <<call, initCmd, builds, saltOf, drawn>>
    /\ UNCHANGED <<step, kdf, contentDir, pathSep, distDir, keySalt, indexTag,
                   hasErrors, content, masterKey, result, i, cur, streams,
                   uncaught, trace, appParams,
                   webpackStats>>

(***************************************************************************)
(* _encryptStream                                                          *)
(***************************************************************************)
\* as EncryptStreamFileKey, with the file key of the previous call taken
\* again where there is one
EncryptStreamFileKey_Again ==
    /\ InEncrypt("fileKey")
    /\ IF drawn # <<>>
       THEN /\ cur' = [cur EXCEPT !.fileKey = drawn[Len(drawn)].key]
            /\ UNCHANGED drawn
       ELSE \E k \in Draws(NumKeys, SeenKeys) :
              /\ cur' = [cur EXCEPT !.fileKey = k]
              /\ drawn' = Append(drawn, [key |-> k, iv |-> 0])
    /\ step' = "fileIV"
    /\ UNCHANGED <<call, initCmd, builds, saltOf>>
    /\ UNCHANGED <<pc, kdf, contentDir, pathSep, distDir, keySalt, indexTag,
                   hasErrors, content, masterKey, result, i, streams,
                   uncaught, trace, error, appParams,
                   webpackStats>>

\* randomBytes(32) resolves: fileKey
EncryptStreamFileKey ==
    /\ InEncrypt("fileKey")
    /\ \E k \in Draws(NumKeys, SeenKeys) :
         /\ cur' = [cur EXCEPT !.fileKey = k]
         /\ drawn' = Append(drawn, [key |-> k, iv |-> 0])
    /\ step' = "fileIV"
    /\ UNCHANGED <<call, initCmd, builds, saltOf>>
    /\ UNCHANGED <<pc, kdf, contentDir, pathSep, distDir, keySalt, indexTag,
                   hasErrors, content, masterKey, result, i, streams,
                   uncaught, trace, error, appParams,
                   webpackStats>>

\* as Header, with the two writes in the other order
Header_IvFirst(mk, fileKey, fileIV) == <<ivItem(fileIV), kwEncrypt(mk, fileKey)>>

\* the writes of the header, as the promise executor issues them
Header(mk, fileKey, fileIV) == <<kwEncrypt(mk, fileKey), ivItem(fileIV)>>

\* outStream.write(item) for each of items: the stream buffers them
StreamWrite(s, items) == [s EXCEPT !.written = @ \o items]

\* randomBytes(12) resolves: fileIV; the key is wrapped and the promise
\* executor runs: the header is written, the 'end' and 'error' listeners
\* are registered and the streams are piped
EncryptStreamStart ==
    /\ InEncrypt("fileIV")
    /\ \E n \in Draws(NumKeys, SeenIVs) :
         /\ cur' = [cur EXCEPT !.fileIV = n]
         /\ drawn' = [drawn EXCEPT ![Len(drawn)].iv = n]
         /\ streams' = [streams EXCEPT ![cur.out] =
                [StreamWrite(@, Header(Get(masterKey), cur.fileKey, n))
                    EXCEPT !.promise = "pending"]]
    /\ step' = "pipe"
    /\ UNCHANGED <<call, initCmd, builds, saltOf>>
    /\ UNCHANGED <<pc, kdf, contentDir, pathSep, distDir, keySalt, indexTag,
                   hasErrors, content, masterKey, result, i, uncaught, trace,
                   error, appParams,
                   webpackStats>>

\* a 'data' event of inStream: the chunk goes through the cipher and the
\* ciphertext is written to outStream
PipeData ==
    /\ InEncrypt("pipe")
    /\ cur.inStream # <<>>
    /\ streams' = [streams EXCEPT ![cur.out] =
            StreamWrite(@, <<cipherUpdate(cur.fileKey, cur.fileIV, Head(cur.inStream))>>)]
    /\ cur' = [cur EXCEPT !.inStream = Tail(@), !.plain = Append(@, Head(cur.inStream))]
    /\ UNCHANGED <<call, initCmd, builds, saltOf, drawn>>
    /\ UNCHANGED <<pc, step, kdf, contentDir, pathSep, distDir, keySalt,
                   indexTag, hasErrors, content, masterKey, result, i,
                   uncaught, trace, error, appParams,
                   webpackStats>>

\* an 'error' event of inStream: the listener rejects the promise
InStreamError ==
    /\ InEncrypt("pipe")
    /\ streams[cur.out].promise = "pending"
    /\ streams' = [streams EXCEPT ![cur.out].promise = "rejected"]
    /\ Reject("inStream")
    /\ UNCHANGED <<call, initCmd, builds, saltOf, drawn>>
    /\ UNCHANGED <<step, kdf, contentDir, pathSep, distDir, keySalt, indexTag,
                   hasErrors, content, masterKey, result, i, cur, uncaught,
                   trace, appParams,
                   webpackStats>>

\* the 'end' event of the cipher after the 'end' of inStream: the listener
\* of _encryptStream resolves the promise with the tag, the listener of
\* pipe ends outStream
CipherEnd(s) == [s EXCEPT !.promise = "resolved", !.ended = TRUE]

\* as PipeEndContent, without the assignment of the tag
PipeEndContent_NoTag ==
    /\ InEncrypt("pipe") /\ pc = "ENCRYPT_CONTENT"
    /\ cur.inStream = <<>>
    /\ streams[cur.out].promise = "pending"
    /\ streams' = [streams EXCEPT ![cur.out] = CipherEnd(@)]
    /\ result' = [result EXCEPT ![i].dist = Some(cur.dist)]
    /\ i' = i + 1
    /\ step' = "dist"
    /\ UNCHANGED <<call, initCmd, builds, saltOf, drawn>>
    /\ UNCHANGED <<pc, kdf, contentDir, pathSep, distDir, keySalt, indexTag,
                   hasErrors, content, masterKey, cur, uncaught, trace, error,
                   appParams, webpackStats>>

\* the cipher ends while encrypting a content file: _encryptContent sets
\* dist and tag of result[i] and goes to the next element
PipeEndContent ==
    /\ InEncrypt("pipe") /\ pc = "ENCRYPT_CONTENT"
    /\ cur.inStream = <<>>
    /\ streams[cur.out].promise = "pending"
    /\ streams' = [streams EXCEPT ![cur.out] = CipherEnd(@)]
    /\ LET tagBuf == getAuthTag(cur.fileKey, cur.fileIV, cur.plain) IN
       result' = [result EXCEPT ![i].dist = Some(cur.dist),
                                ![i].tag = Some(toBase64(tagBuf))]
    /\ i' = i + 1
    /\ step' = "dist"
    /\ UNCHANGED <<call, initCmd, builds, saltOf, drawn>>
    /\ UNCHANGED <<pc, kdf, contentDir, pathSep, distDir, keySalt, indexTag,
                   hasErrors, content, masterKey, cur, uncaught, trace, error,
                   appParams,
                   webpackStats>>

\* as EncryptContentReturn, with webpack called before the index is written
EncryptContentReturn_SkipIndex ==
    /\ InEncrypt("dist") /\ pc = "ENCRYPT_CONTENT"
    /\ i > Len(result)
    /\ content' = result
    /\ step' = ""
    /\ Start("BUNDLE")
    /\ UNCHANGED <<call, initCmd, builds, saltOf, drawn>>
    /\ UNCHANGED <<kdf, contentDir, pathSep, distDir, keySalt, indexTag,
                   hasErrors, masterKey, result, i, cur, streams, uncaught,
                   error, appParams, webpackStats>>

\* the loop of _encryptContent is over: it returns result, which becomes
\* content of build(), and _createIndex(masterKey, content) is called
EncryptContentReturn ==
    /\ InEncrypt("dist") /\ pc = "ENCRYPT_CONTENT"
    /\ i > Len(result)
    /\ content' = result
    /\ step' = "index"
    /\ Start("ENCRYPT_INDEX")
    /\ UNCHANGED <<call, initCmd, builds, saltOf, drawn>>
    /\ UNCHANGED <<kdf, contentDir, pathSep, distDir, keySalt, indexTag,
                   hasErrors, masterKey, result, i, cur, streams, uncaught,
                   error, appParams,
                   webpackStats>>


(***************************************************************************)
(* _createIndex: step 6                                                    *)
(***************************************************************************)
\* _createIndex serializes the list into a stream of one chunk, creates
\* the output stream of the index and calls _encryptStream
CreateIndex ==
    /\ InEncrypt("index") /\ pc = "ENCRYPT_INDEX"
    /\ cur' = [NoCur EXCEPT !.dist = IndexName, !.out = Len(streams) + 1,
                            !.inStream = <<JSONstringify(content)>>]
    /\ streams' = Append(streams, createWriteStream(IndexName, pc))
    /\ step' = "fileKey"
    /\ UNCHANGED <<call, initCmd, builds, saltOf, drawn>>
    /\ UNCHANGED <<pc, kdf, contentDir, pathSep, distDir, keySalt, indexTag,
                   hasErrors, content, masterKey, result, i, uncaught, trace,
                   error, appParams,
                   webpackStats>>

\* the parameters of step 7, with the passphrase among them
AppParams_Passphrase(tag, salt, selector) ==
    [distDir |-> DistDirPath, authIssuer |-> <<"https://">> \o Auth0Domain,
     authClientId |-> Auth0ClientId, idTokenNamespace |-> <<"https://hereditas.app">>,
     indexTag |-> tag, keySalt |-> salt, kdf |-> selector,
     pbkdf2Iterations |-> Pbkdf2Iterations, argon2Memory |-> Argon2Memory,
     passphrase |-> Passphrase]

\* the parameters of step 7
AppParams(tag, salt, selector) ==
    [distDir |-> DistDirPath, authIssuer |-> <<"https://">> \o Auth0Domain,
     authClientId |-> Auth0ClientId, idTokenNamespace |-> <<"https://hereditas.app">>,
     indexTag |-> tag, keySalt |-> salt, kdf |-> selector,
     pbkdf2Iterations |-> Pbkdf2Iterations, argon2Memory |-> Argon2Memory]

\* as PipeEndIndex, with the tag converted as _encryptContent converts it
PipeEndIndex_Base64 ==
    /\ InEncrypt("pipe") /\ pc = "ENCRYPT_INDEX"
    /\ cur.inStream = <<>>
    /\ streams[cur.out].promise = "pending"
    /\ streams' = [streams EXCEPT ![cur.out] = CipherEnd(@)]
    /\ LET tagBuf == getAuthTag(cur.fileKey, cur.fileIV, cur.plain) IN
       /\ indexTag' = Some(toBase64(tagBuf))
       /\ appParams' = Some(AppParams(indexTag', keySalt, kdf))
    /\ step' = ""
    /\ Start("BUNDLE")
    /\ UNCHANGED <<call, initCmd, builds, saltOf, drawn>>
    /\ UNCHANGED <<kdf, contentDir, pathSep, distDir, keySalt, hasErrors,
                   content, masterKey, result, i, cur, uncaught, error,
                   webpackStats>>

\* the cipher ends while encrypting the index: this.indexTag is the value
\* _encryptStream resolved with, and webpack is called
PipeEndIndex ==
    /\ InEncrypt("pipe") /\ pc = "ENCRYPT_INDEX"
    /\ cur.inStream = <<>>
    /\ streams[cur.out].promise = "pending"
    /\ streams' = [streams EXCEPT ![cur.out] = CipherEnd(@)]
    /\ LET tagBuf == getAuthTag(cur.fileKey, cur.fileIV, cur.plain) IN
       /\ indexTag' = Some(Buffer(tagBuf))
       /\ appParams' = Some(AppParams(indexTag', keySalt, kdf))
    /\ step' = ""
    /\ Start("BUNDLE")
    /\ UNCHANGED <<call, initCmd, builds, saltOf, drawn>>
    /\ UNCHANGED <<kdf, contentDir, pathSep, distDir, keySalt, hasErrors,
                   content, masterKey, result, i, cur, uncaught, error,
                   webpackStats>>

(***************************************************************************)
(* webpack: step 7                                                         *)
(***************************************************************************)
\* as WebpackDone, with the flag set for warnings too
WebpackDone_WarningsFlag ==
    /\ Running("BUNDLE")
    /\ \E hasErr \in BOOLEAN, hasWarn \in BOOLEAN :
         /\ webpackStats' = Some([hasErrors |-> hasErr, hasWarnings |-> hasWarn])
         /\ hasErrors' = IF hasErr \/ hasWarn THEN TRUE ELSE hasErrors
    /\ pc' = "done"
    /\ UNCHANGED <<call, initCmd, builds, saltOf, drawn>>
    /\ UNCHANGED <<step, kdf, contentDir, pathSep, distDir, keySalt, indexTag,
                   content, masterKey, result, i, cur, streams, uncaught,
                   trace, error, appParams>>

\* webpack resolves with its stats: errors set this.hasErrors, warnings
\* are only printed; build() returns
WebpackDone ==
    /\ Running("BUNDLE")
    /\ \E hasErr \in BOOLEAN, hasWarn \in BOOLEAN :
         /\ webpackStats' = Some([hasErrors |-> hasErr, hasWarnings |-> hasWarn])
         /\ hasErrors' = IF hasErr THEN TRUE ELSE hasErrors
    /\ pc' = "done"
    /\ UNCHANGED <<call, initCmd, builds, saltOf, drawn>>
    /\ UNCHANGED <<step, kdf, contentDir, pathSep, distDir, keySalt, indexTag,
                   content, masterKey, result, i, cur, streams, uncaught,
                   trace, error, appParams>>

\* webpack rejects
WebpackFail ==
    /\ Running("BUNDLE")
    /\ Reject("webpack")
    /\ UNCHANGED <<call, initCmd, builds, saltOf, drawn>>
    /\ UNCHANGED <<step, kdf, contentDir, pathSep, distDir, keySalt, indexTag,
                   hasErrors, content, masterKey, result, i, cur, streams,
                   uncaught, trace, appParams,
                   webpackStats>>

(***************************************************************************)
(* The write streams: what the file system does with them, at any time     *)
(***************************************************************************)
\* the file f with item written at position pos (positions count items)
WriteAt(f, pos, item) ==
    [k \in 1..(IF Len(f) > pos THEN Len(f) ELSE pos) |->
        IF k = pos THEN item ELSE IF k <= Len(f) THEN f[k] ELSE Hole]

\* the stream has written everything and was ended: 'finish'
StreamFinished(s) ==
    s.opened /\ s.ended /\ ~s.errored /\ s.flushed = Len(s.written)

\* the file of stream n is opened with flag 'w': created, or truncated
StreamOpen(n) ==
    /\ ~uncaught
    /\ n \in 1..Len(streams)
    /\ ~streams[n].opened /\ ~streams[n].errored
    /\ streams' = [streams EXCEPT ![n].opened = TRUE]
    /\ distDir' = [distDir EXCEPT ![streams[n].name] = Some(<<>>)]
    /\ UNCHANGED <<call, initCmd, builds, saltOf, drawn>>
    /\ UNCHANGED <<pc, step, kdf, contentDir, pathSep, keySalt, indexTag,
                   hasErrors, content, masterKey, result, i, cur, uncaught,
                   trace, error, appParams,
                   webpackStats>>

\* the next buffered write of stream n reaches the file
StreamFlush(n) ==
    /\ ~uncaught
    /\ n \in 1..Len(streams)
    /\ streams[n].opened /\ ~streams[n].errored
    /\ streams[n].flushed < Len(streams[n].written)
    /\ streams' = [streams EXCEPT ![n].flushed = @ + 1]
    /\ distDir' = [distDir EXCEPT ![streams[n].name] =
            Some(WriteAt(Get(@), streams[n].flushed + 1,
                         streams[n].written[streams[n].flushed + 1]))]
    /\ UNCHANGED <<call, initCmd, builds, saltOf, drawn>>
    /\ UNCHANGED <<pc, step, kdf, contentDir, pathSep, keySalt, indexTag,
                   hasErrors, content, masterKey, result, i, cur, uncaught,
                   trace, error, appParams,
                   webpackStats>>

\* the open or a write of stream n fails: the stream emits 'error'.  The
\* listener, where _encryptStream has registered it, calls reject, which
\* rejects a pending promise and does nothing to a settled one; an 'error'
\* event without listener is thrown as an uncaught exception
StreamError(n) ==
    /\ ~uncaught
    /\ n \in 1..Len(streams)
    /\ ~streams[n].errored
    /\ ~StreamFinished(streams[n])
    /\ \/ ~streams[n].opened
       \/ streams[n].flushed < Len(streams[n].written)
    /\ streams' = [streams EXCEPT ![n].errored = TRUE,
                                  ![n].promise = IF @ = "pending" THEN "rejected" ELSE @]
    /\ IF streams[n].promise = "pending"
       THEN Reject("outStream") /\ UNCHANGED uncaught
       ELSE /\ uncaught' = (streams[n].promise = "none")
            /\ UNCHANGED <<pc, error>>
    /\ UNCHANGED <<call, initCmd, builds, saltOf, drawn>>
    /\ UNCHANGED <<step, kdf, contentDir, pathSep, distDir, keySalt, indexTag,
                   hasErrors, content, masterKey, result, i, cur, trace,
                   appParams,
                   webpackStats>>

Next ==
    \/ build
    \/ CleanDirectoryDone
    \/ CleanDirectoryFail
    \/ ScanContentDone
    \/ SaltDone
    \/ SaltFail
    \/ DeriveKeyInvalid
    \/ DeriveKeyDone
    \/ DeriveKeyFail
    \/ EncryptContentDist
    \/ RandomBytesFail
    \/ ContentProcessDone
    \/ ContentProcessFail
    \/ EncryptStreamFileKey
    \/ EncryptStreamStart
    \/ PipeData
    \/ InStreamError
    \/ PipeEndContent
    \/ EncryptContentReturn
    \/ CreateIndex
    \/ PipeEndIndex
    \/ WebpackDone
    \/ WebpackFail
    \/ \E n \in 1..Len(streams) : StreamOpen(n)
    \/ \E n \in 1..Len(streams) : StreamFlush(n)
    \/ \E n \in 1..Len(streams) : StreamError(n)

Spec == Init /\ [][Next]_vars

TypeOK ==
    /\ pc \in {"idle", "CLEAN", "SCAN", "SALT", "DERIVE", "ENCRYPT_CONTENT",
               "ENCRYPT_INDEX", "BUNDLE", "done", "rejected"}
    /\ step \in {"", "dist", "process", "fileKey", "fileIV", "pipe", "index"}
    /\ hasErrors \in BOOLEAN
    /\ uncaught \in BOOLEAN
    /\ i \in 0..(Len(result) + 1)


(***************************************************************************)
(* Properties                                                              *)
(***************************************************************************)
StageNames == { Stages[k] : k \in 1..Len(Stages) }
InvalidKdfError == Some("Invalid key derivation function requested")
UnsupportedSelector == kdf \notin {"pbkdf2", "argon2"}
\* what _scanContent returned in this build
Scanned == _scanContent(contentDir, pathSep).result
\* all records of a list have dist and tag
AllEncrypted(list) ==
    \A k \in 1..Len(list) : IsSet(list[k].dist) /\ IsSet(list[k].tag)

\* C1: the stages of a build start in the order CLEAN, SCAN, SALT, DERIVE,
\* ENCRYPT_CONTENT, ENCRYPT_INDEX, BUNDLE: the stages started so far are a
\* prefix of that order (none twice, none skipped, none early), the stage
\* build() is in is the last one started, and a build that completes has
\* started all seven
C1_StagesInOrder ==
    /\ Len(trace) <= Len(Stages)
    /\ \A k \in 1..Len(trace) : trace[k] = Stages[k]
    /\ pc \in StageNames => (trace # <<>> /\ trace[Len(trace)] = pc)
    /\ pc = "done" => trace = Stages

C1_Witness == pc = "done" /\ trace = Stages /\ Len(content) = 2

\* C2: whenever _createIndex starts and as long as the index is being
\* built, every record of the list it serializes has dist and tag set and
\* the encryption of every content file has returned its tag
C2_IndexOverEncryptedContent ==
    pc = "ENCRYPT_INDEX" =>
        /\ AllEncrypted(content)
        /\ \A k \in 1..Len(content) : streams[k].promise = "resolved"
        /\ \A k \in 1..Len(cur.inStream) : AllEncrypted(JSONparse(cur.inStream[k]))
        /\ \A k \in 1..Len(cur.plain) : AllEncrypted(JSONparse(cur.plain[k]))

C2_Witness ==
    /\ pc = "ENCRYPT_INDEX" /\ step = "fileKey"
    /\ Len(cur.inStream) = 1 /\ Len(JSONparse(cur.inStream[1])) = 2

\* C3: with a KDF selector that is neither 'pbkdf2' nor 'argon2' the build
\* never gets past DERIVE: it leaves DERIVE only by rejecting with the
\* error of _deriveKey, no output stream is ever created, no encryption
\* starts and webpack is never called
C3_State ==
    UnsupportedSelector =>
        /\ pc \notin {"ENCRYPT_CONTENT", "ENCRYPT_INDEX", "BUNDLE", "done"}
        /\ streams = <<>>
        /\ masterKey = None /\ appParams = None /\ webpackStats = None
        /\ error = InvalidKdfError => pc = "rejected"
C3_Step ==
    (UnsupportedSelector /\ pc = "DERIVE" /\ pc' # pc) =>
        (pc' = "rejected" /\ error' = InvalidKdfError)
C3_UnsupportedKdfFails == []C3_State /\ [][C3_Step]_vars

C3_Witness ==
    /\ kdf = "md5" /\ pc = "rejected" /\ error = InvalidKdfError
    /\ Len(content) = 2 /\ streams = <<>>

\* C4 as stated: an unsupported selector is rejected at construction, so
\* with such a selector no build ever starts CLEAN or generates a salt
C4_RejectedAtConstruction ==
    UnsupportedSelector => (trace = <<>> /\ keySalt = None)

\* C4 as amended: an unsupported selector is rejected in the DERIVE stage:
\* when build() rejects with the error of _deriveKey, the stages CLEAN, SCAN
\* and SALT have run (the salt is generated and stored) and neither a key
\* derivation nor an encryption has been performed
C4_RejectedInDerive ==
    error = InvalidKdfError =>
        /\ UnsupportedSelector
        /\ pc = "rejected"
        /\ trace = SubSeq(Stages, 1, 4)
        /\ IsSet(keySalt)
        /\ masterKey = None
        /\ streams = <<>>

C4_Witness ==
    /\ kdf = "undefined" /\ error = InvalidKdfError /\ IsSet(keySalt)
    /\ trace = <<"CLEAN", "SCAN", "SALT", "DERIVE">>

\* C5 as stated: the dist names _encryptContent has assigned are pairwise
\* distinct
C5_DistPairwiseDistinct ==
    \A j, k \in 1..Len(result) :
        (j # k /\ IsSet(result[j].dist) /\ IsSet(result[k].dist)) =>
            result[j].dist # result[k].dist

\* C6 as stated: a failure in a stage before BUNDLE (a rejected or thrown
\* step of it, or an I/O error of the output stream an encryption of it
\* writes to) makes build() reject with that error in that stage, with no
\* later stage started and hasErrors not set
C6_FailFast ==
    /\ (IsSet(error) /\ error # Some("webpack")) =>
           (pc = "rejected" /\ hasErrors = FALSE /\ webpackStats = None)
    /\ \A n \in 1..Len(streams) :
        (streams[n].errored /\ streams[n].promise # "none") =>
           /\ pc = "rejected" /\ error \in {Some("outStream"), Some("inStream")}
           /\ trace[Len(trace)] = streams[n].stage
           /\ hasErrors = FALSE

\* C7: when webpack resolves with its stats the build completes, whatever
\* the stats report: with errors hasErrors becomes true, without errors
\* (warnings or not) hasErrors keeps its value
C7_BundleErrorsFlag ==
    [][ (webpackStats = None /\ webpackStats' # None) =>
            /\ pc' = "done" /\ error' = None
            /\ hasErrors' = IF Get(webpackStats').hasErrors THEN TRUE ELSE hasErrors
      ]_vars

C7_Witness ==
    /\ pc = "done" /\ hasErrors
    /\ webpackStats = Some([hasErrors |-> TRUE, hasWarnings |-> FALSE])

\* C8 as stated: an I/O failure of the output stream that _encryptStream
\* is writing or has written to (the promise of the call exists) makes
\* that call reject and the build abort; the call never resolves with a tag
\* for an output whose writing failed
C8_StreamErrorRejects ==
    \A n \in 1..Len(streams) :
        (streams[n].errored /\ streams[n].promise # "none") =>
            (streams[n].promise = "rejected" /\ pc = "rejected")

\* no other stream writes to the file of stream n
OwnFile(n) == \A m \in 1..Len(streams) : m # n => streams[m].name # streams[n].name

\* C9: what _encryptStream writes to an output stream is, in this order,
\* the file key wrapped under the master key, the IV, and then only
\* ciphertext of that key and IV; the file holds what the stream has
\* flushed, in that order; the tag is no part of the output, it is what the
\* call returns (stored in the record of the file, or in indexTag)
C9_HeaderThenCiphertext ==
    \A n \in 1..Len(streams) :
        LET w == streams[n].written IN
        /\ \A k \in 1..Len(w) :
              /\ w[k].item = (IF k = 1 THEN "wrappedKey" ELSE
                              IF k = 2 THEN "iv" ELSE "ciphertext")
              /\ k = 1 => w[k].under = masterKey
              /\ k >= 3 => (w[k].key = w[1].key /\ w[k].iv = w[2].iv)
        /\ (streams[n].opened /\ OwnFile(n)) =>
              distDir[streams[n].name] = Some(SubSeq(w, 1, streams[n].flushed))
        /\ (n <= Len(result) /\ IsSet(result[n].tag)) =>
              Get(result[n].tag) =
                  toBase64(getAuthTag(w[1].key, w[2].iv,
                                      [k \in 1..(Len(w) - 2) |-> w[k + 2].of[1]]))

C9_Witness ==
    \E n \in 1..Len(streams) :
        /\ Len(streams[n].written) = 3
        /\ StreamFinished(streams[n]) /\ OwnFile(n)
        /\ distDir[streams[n].name] = Some(streams[n].written)
        /\ n <= Len(result) /\ IsSet(result[n].tag)

\* the list the index was serialized from, once it has gone through the cipher
IndexPlaintext == JSONparse(streams[Len(streams)].written[3].of[1])

\* C10: after a build that completes the index plaintext holds one record
\* per descriptor _scanContent returned, with the paths in the same order
C10_IndexInScanOrder ==
    pc = "done" =>
        /\ streams[Len(streams)].name = IndexName
        /\ Len(IndexPlaintext) = Len(Scanned)
        /\ \A k \in 1..Len(Scanned) :
              /\ IndexPlaintext[k].path = Scanned[k].path
              /\ IndexPlaintext[k].size = Scanned[k].size

C10_Witness ==
    /\ pc = "done" /\ Len(IndexPlaintext) = 2
    /\ IndexPlaintext[1].path # IndexPlaintext[2].path


(***************************************************************************)
(* _scanContent on its own, over enumerated content directories            *)
(***************************************************************************)
\* the names of the enumerated entries: two plain names and a backup name
ScanNames == { <<"a">>, <<"s">>, <<"b", "~">> }

\* the sequences of at most n elements of S
SeqsUpTo(S, n) == UNION { [1..k -> S] : k \in 0..n }

\* a directory listing holds no name twice
DistinctNames(list) ==
    \A e, f \in 1..Len(list) : list[e].name = list[f].name => e = f

\* listings of files only
FileLists ==
    { l \in SeqsUpTo({ File(n, <<>>) : n \in ScanNames }, MaxEntries) :
        DistinctNames(l) }

\* two listings with a directory in them, one rejected and one passing
DeepLists ==
    { << Dir(<<"b", "~">>, TRUE, << File(<<"a">>, <<>>) >>),
         File(<<"a">>, <<"h">>) >>,
      << Dir(<<"a">>, TRUE, << File(<<"b", "~">>, <<>>),
                               File(<<"s">>, <<"h", "i">>) >>) >> }

\* the entries of the root: a file, an entry fs.stat fails on, a directory
\* fs.readdir fails on, a directory of files, a directory of directories
RootEntries ==
    UNION { { File(n, <<"h">>), Broken(n), Dir(n, FALSE, <<>>) }
            \cup { Dir(n, TRUE, l) : l \in FileLists \cup DeepLists } :
            n \in ScanNames }

ScanDirs ==
    { Dir(<<>>, TRUE, l) : l \in { r \in SeqsUpTo(RootEntries, MaxEntries) :
                                     DistinctNames(r) } }

InitScan ==
    /\ \E d \in ScanDirs, sp \in Seps :
         Constructed([kdf |-> "pbkdf2", contentDir |-> d, pathSep |-> sp,
                      distDir |-> [n \in FileNames |-> None]])
    /\ call = NoCall
    /\ initCmd = NoInitCmd

\* await this._scanContent(): the list is returned, or the promise rejects
ScanContent ==
    /\ pc = "idle"
    /\ LET r == _scanContent(contentDir, pathSep) IN
         IF r.ok THEN pc' = "scanned" /\ content' = r.result
         ELSE pc' = "rejected" /\ UNCHANGED content
    /\ UNCHANGED <<step, kdf, contentDir, pathSep, distDir, keySalt, indexTag,
                   hasErrors, masterKey, result, i, cur, streams, uncaught,
                   trace, error, appParams, webpackStats, builds, saltOf,
                   drawn, call, initCmd>>

NextScan == ScanContent

SpecScan == InitScan /\ [][NextScan]_vars

RECURSIVE Concat(_)
Concat(ss) == IF ss = <<>> THEN <<>> ELSE Head(ss) \o Concat(Tail(ss))

\* the files below list whose name and whose ancestors' names pass the Path
\* Filter, depth first in listing order, as {path, size}
RECURSIVE PassingFiles(_, _, _)
PassingFiles(folder, list, sp) ==
    Concat([e \in 1..Len(list) |->
        IF ~includePath(list[e].name, sp) THEN <<>>
        ELSE IF list[e].isDirectory
        THEN PassingFiles(folder \o list[e].name \o <<sp>>, list[e].list, sp)
        ELSE << [path |-> folder \o list[e].name,
                 size |-> Len(list[e].data)] >>])

\* C11: the list _scanContent returns holds exactly one descriptor for each
\* non-directory entry whose own name and whose ancestors' names all pass
\* the Path Filter, in depth-first listing order: a rejected directory is not
\* recursed into, a passing directory is recursed into and has no descriptor
C11_ScanReturnsPassingFiles ==
    pc = "scanned" =>
        LET expected == PassingFiles(<<>>, contentDir.list, pathSep) IN
        /\ Len(content) = Len(expected)
        /\ \A k \in 1..Len(content) :
             /\ content[k].path = expected[k].path
             /\ content[k].size = expected[k].size

\* a scan that has skipped a rejected directory with a file in it, recursed
\* into a passing one and returned the file from it
C11_Witness ==
    /\ pc = "scanned"
    /\ \E e, f \in 1..Len(contentDir.list) :
         /\ contentDir.list[e].isDirectory
         /\ ~includePath(contentDir.list[e].name, pathSep)
         /\ contentDir.list[e].list # <<>>
         /\ contentDir.list[f].isDirectory
         /\ includePath(contentDir.list[f].name, pathSep)
         /\ contentDir.list[f].list # <<>>
    /\ content # <<>>


(***************************************************************************)
(* includePath on its own, over enumerated paths                           *)
(***************************************************************************)
\* the last path components tried: the ten patterns and strings close to them
FilterNames ==
    { DotDirectory, DotDSStore, DotAppleDouble, DotLSOverride, ThumbsDb,
      ThumbsDbEncryptable, desktopIni, DesktopIni,
      <<"~">>, <<"x", "~">>, <<"~", "x">>, <<"x", "~", "x">>,
      <<".", "_">>, <<".", "_", "a">>, <<"_", ".", "a">>, <<"a", ".", "_">>,
      <<".">>, <<"a">>, aMd,
      DotDirectory \o <<"2">>, <<"x">> \o DotDSStore, Tail(DotAppleDouble),
      <<".", "l", "s">> \o SubSeq(DotLSOverride, 4, 11),
      <<"t">> \o Tail(ThumbsDb), ThumbsDb \o <<":">>,
      desktopIni \o <<".", "b">>, <<"D", "E", "S", "K", "T", "O", "P">>
                                    \o SubSeq(DesktopIni, 8, 11) }

\* what comes before the last component: nothing, a folder with either
\* separator, a folder of a filtered name
FilterFolders ==
    { <<>>, <<"d", "/">>, <<"d", "\\">>, DotDSStore \o <<"/">>,
      <<"b", "~", "\\">>, <<"/">> }

\* what comes after it: nothing or a trailing separator
FilterTails == { <<>>, <<"/">>, <<"\\">> }

InitFilter ==
    /\ \E f \in FilterFolders, n \in FilterNames, t \in FilterTails,
          sp \in Seps :
         call = [str |-> f \o n \o t, pathSep |-> sp, ret |-> None]
    /\ Constructed([kdf |-> "pbkdf2", contentDir |-> Dir(<<>>, TRUE, <<>>),
                    pathSep |-> call.pathSep,
                    distDir |-> [n \in FileNames |-> None]])
    /\ initCmd = NoInitCmd

\* includePath(str) is called and returns
IncludePath ==
    /\ call.ret = None
    /\ call' = [call EXCEPT !.ret = Some(includePath(call.str, call.pathSep))]
    /\ UNCHANGED <<pc, step, kdf, contentDir, pathSep, distDir, keySalt,
                   indexTag, hasErrors, content, masterKey, result, i, cur,
                   streams, uncaught, trace, error, appParams, webpackStats,
                   builds, saltOf, drawn, initCmd>>

NextFilter == IncludePath

SpecFilter == InitFilter /\ [][NextFilter]_vars

\* the names the Path Filter rejects
DenyNames ==
    { DotDirectory, DotDSStore, DotAppleDouble, DotLSOverride, ThumbsDb,
      ThumbsDbEncryptable, desktopIni, DesktopIni }

Denied(base) ==
    \/ Len(base) >= 1 /\ base[Len(base)] = "~"
    \/ Len(base) >= 2 /\ base[1] = "." /\ base[2] = "_"
    \/ base \in DenyNames

\* C12: includePath(p) depends only on the basename of p: it is false exactly
\* when the basename ends with '~', starts with '._' or is one of the eight
\* metadata names, and true otherwise
C12_IncludePathByBasename ==
    IsSet(call.ret) =>
        Get(call.ret) = ~Denied(basename(call.str, call.pathSep))

\* includePath has returned false for a path that is more than its basename
\* and whose basename is a metadata name
C12_Witness ==
    /\ call.ret = Some(FALSE)
    /\ basename(call.str, call.pathSep) = DesktopIni
    /\ call.str # DesktopIni


(***************************************************************************)
(* The output directory after a build                                      *)
(***************************************************************************)
\* the files distDir holds
OutputFiles == { n \in FileNames : IsSet(distDir[n]) }

\* build() has resolved and every output stream has finished
Completed ==
    /\ pc = "done"
    /\ \A n \in 1..Len(streams) : StreamFinished(streams[n])

\* C13 as stated: after the index has been encrypted, in a build over n
\* files whose output has all reached the disk, the output directory holds
\* exactly n files named by the dist of the records and exactly one
\* '_index', and nothing a previous build has left
C13_OutputIsContentPlusIndex ==
    Completed =>
        /\ OutputFiles = { Get(content[k].dist) : k \in 1..Len(content) }
                            \cup {IndexName}
        /\ Cardinality(OutputFiles) = Len(content) + 1
        /\ \A n \in OutputFiles : \A k \in 1..Len(Get(distDir[n])) :
              Get(distDir[n])[k].item # "old"


\* the bytes of a tag, whatever form it is published in
TagBytes(v) == IF IsSet(v.raw) THEN Get(v.raw) ELSE Get(v.base64)

\* the file f is the output of _encryptStream for the plaintext plain under
\* the master key mk
EncryptionOf(f, plain, mk) ==
    /\ Len(f) = Len(plain) + 2
    /\ f[1].item = "wrappedKey" /\ f[1].under = Some(mk)
    /\ f[2].item = "iv"
    /\ \A j \in 1..Len(plain) : f[j + 2] = cipherUpdate(f[1].key, f[2].iv, plain[j])

\* C14 as stated: after a build that has completed, for every record of the
\* index the file named by its dist holds the ciphertext of the pre-processed
\* content of that record, under a file key wrapped with the master key
\* derived from the salt and KDF parameters handed to webpack, and the tag
\* of the record is the tag of that file; the indexTag handed to webpack is
\* the tag of '_index'
C14_IndexMatchesOutput ==
    Completed =>
        LET ap == Get(appParams)
            mk == _deriveKey(ap.kdf, Passphrase \o AppToken, Get(ap.keySalt))
            index == Get(distDir[IndexName])
        IN
        /\ \A k \in 1..Len(IndexPlaintext) :
             LET rec == IndexPlaintext[k]
                 f == Get(distDir[Get(rec.dist)])
                 plain == ContentProcess(Scanned[k],
                              readFile(<<>>, contentDir.list, 1, rec.path,
                                       pathSep)).inStream
             IN /\ EncryptionOf(f, plain, mk)
                /\ TagBytes(Get(rec.tag)) = getAuthTag(f[1].key, f[2].iv, plain)
        /\ EncryptionOf(index, <<JSONstringify(IndexPlaintext)>>, mk)
        /\ TagBytes(Get(ap.indexTag)) =
              getAuthTag(index[1].key, index[2].iv, <<index[3].of[1]>>)


(***************************************************************************)
(* The form tags are published in                                          *)
(***************************************************************************)
IsBase64(v) == IsSet(v.base64) /\ v.raw = None
IsBuffer(v) == IsSet(v.raw) /\ v.base64 = None

\* every tag a record of list has is base64 text
RecordTagsBase64(list) ==
    \A k \in 1..Len(list) : IsSet(list[k].tag) => IsBase64(Get(list[k].tag))

\* C15 as stated: tags are published as base64 text: the tag of a content
\* record, and likewise the indexTag stored on the Builder and handed to
\* webpack
C15_AllTagsBase64 ==
    /\ RecordTagsBase64(result) /\ RecordTagsBase64(content)
    /\ IsSet(indexTag) => IsBase64(Get(indexTag))
    /\ IsSet(appParams) => IsBase64(Get(Get(appParams).indexTag))

\* C15, amended: the tag of a content record is the base64 text of the tag
\* the cipher returned for its file; the indexTag stored on the Builder and
\* handed to webpack is the Buffer the cipher returned for the index, as it
\* is, and not base64 text
C15_RecordTagsBase64IndexTagBuffer ==
    /\ RecordTagsBase64(result) /\ RecordTagsBase64(content)
    /\ \A k \in 1..Len(result) : IsSet(result[k].tag) =>
          LET w == streams[k].written IN
          Get(result[k].tag) =
              toBase64(getAuthTag(w[1].key, w[2].iv,
                                  [j \in 1..(Len(w) - 2) |-> w[j + 2].of[1]]))
    /\ IsSet(indexTag) =>
          LET w == streams[Len(streams)].written IN
          /\ IsBuffer(Get(indexTag))
          /\ Get(indexTag) = Buffer(getAuthTag(w[1].key, w[2].iv, <<w[3].of[1]>>))
    /\ IsSet(appParams) => Get(appParams).indexTag = indexTag

\* webpack has been called with the index tag, over records with tags
C15_Witness ==
    /\ pc = "BUNDLE"
    /\ IsSet(appParams) /\ IsSet(Get(appParams).indexTag)
    /\ Len(content) = 2 /\ AllEncrypted(content)


(***************************************************************************)
(* What leaves the build                                                   *)
(***************************************************************************)
\* the secrets of a build: the passphrase, the token, what the key is derived
\* from, and the master key
SecretTexts == { Passphrase, AppToken, Passphrase \o AppToken }

PublishedFields ==
    { "distDir", "authIssuer", "authClientId", "idTokenNamespace", "indexTag",
      "keySalt", "kdf", "pbkdf2Iterations", "argon2Memory" }

RecordFields == { "path", "size", "display", "processed", "dist", "tag" }

\* an item written to an output file is a file key wrapped under the master
\* key, an IV, or ciphertext under a file key, of a chunk of a content file
\* or of the text of a list of records
WrittenItemIsSealed(it) ==
    /\ it.item \in {"wrappedKey", "iv", "ciphertext"}
    /\ it.item = "wrappedKey" => it = kwEncrypt(Get(masterKey), it.key)
    /\ it.item = "iv" => it = ivItem(it.iv)
    /\ it.item = "ciphertext" =>
          /\ it.under = None
          /\ it.of[1].kind \in {"raw", "html", "json"}
          /\ \A k \in 1..Len(it.of[1].json) :
                DOMAIN it.of[1].json[k] = RecordFields

\* C16: the parameters handed to webpack and everything written to the
\* output directory hold neither the master key nor the passphrase nor the
\* token: the parameters are the nine published fields, with the salt, the
\* selector and the index tag of this build, and every item written is a
\* wrapped file key, an IV or ciphertext
C16_NoSecretLeavesTheBuild ==
    /\ IsSet(appParams) =>
          LET ap == Get(appParams) IN
          /\ DOMAIN ap = PublishedFields
          /\ { ap.distDir, ap.authIssuer, ap.authClientId, ap.idTokenNamespace }
                \cap SecretTexts = {}
          /\ ap.keySalt = keySalt /\ ap.kdf = kdf
          /\ Get(ap.indexTag) # Get(masterKey)
          /\ TagBytes(Get(ap.indexTag)).item = "tag"
    /\ \A n \in 1..Len(streams) : \A k \in 1..Len(streams[n].written) :
          WrittenItemIsSealed(streams[n].written[k])
    /\ \A n \in OutputFiles : \A k \in 1..Len(Get(distDir[n])) :
          \/ Get(distDir[n])[k].item \in {"hole", "old"}
          \/ WrittenItemIsSealed(Get(distDir[n])[k])

\* a build of two files has completed: webpack was called and all the
\* output was written
C16_Witness ==
    /\ Completed /\ IsSet(appParams)
    /\ Len(content) = 2
    /\ \A n \in 1..Len(streams) : distDir[streams[n].name] # Some(<<>>)


(***************************************************************************)
(* build() called again on the same Builder                                *)
(***************************************************************************)
\* the configurations a Builder is built twice with: a package of no file or
\* of one file, a supported and an unsupported selector
RebuildConfigurations ==
    [kdf : {"pbkdf2", "md5"},
     contentDir : { Dir(<<>>, TRUE, <<>>),
                    Dir(<<>>, TRUE, << File(aMd, <<"h">>) >>) },
     pathSep : {"/"},
     distDir : { [n \in FileNames |-> None] }]

InitRebuild ==
    /\ \E c \in RebuildConfigurations : Constructed(c)
    /\ call = NoCall
    /\ initCmd = NoInitCmd

\* an output stream has nothing left to do
StreamSettled(s) == s.errored \/ StreamFinished(s)

\* build() is called on a Builder whose previous build() has resolved or
\* rejected and whose output streams have settled: the locals of the call
\* are new, the fields of the Builder and the output directory are as the
\* previous call has left them
buildAgain ==
    /\ pc \in {"done", "rejected"} /\ ~uncaught
    /\ builds < MaxBuilds
    /\ \A n \in 1..Len(streams) : StreamSettled(streams[n])
    /\ pc' = "CLEAN"
    /\ trace' = <<"CLEAN">>
    /\ builds' = builds + 1
    /\ step' = ""
    /\ content' = <<>>
    /\ masterKey' = None
    /\ result' = <<>>
    /\ i' = 0
    /\ cur' = NoCur
    /\ streams' = <<>>
    /\ error' = None
    /\ appParams' = None
    /\ webpackStats' = None
    /\ UNCHANGED <<kdf, contentDir, pathSep, distDir, keySalt, indexTag,
                   hasErrors, uncaught, saltOf, call, initCmd>>
    /\ drawn' = <<>>

NextRebuild == Next \/ buildAgain

SpecRebuild == InitRebuild /\ [][NextRebuild]_vars

\* the stages of a build after SALT, and the end of a build that completes
AfterSalt == {"DERIVE", "ENCRYPT_CONTENT", "ENCRYPT_INDEX", "BUNDLE", "done"}

C17_State ==
    /\ pc \in {"CLEAN", "SCAN", "SALT"} => saltOf < builds
    /\ pc \in AfterSalt => (saltOf = builds /\ IsSet(keySalt))
    /\ IsSet(masterKey) =>
          /\ saltOf = builds
          /\ Get(masterKey).salt = Get(keySalt)
    /\ IsSet(appParams) => Get(appParams).keySalt = keySalt

C17_Step ==
    /\ (saltOf' # saltOf \/ keySalt' # keySalt) =>
          (pc = "SALT" /\ pc' = "DERIVE" /\ saltOf' = builds)
    /\ (masterKey' # masterKey /\ IsSet(masterKey')) =>
          (pc = "DERIVE" /\ masterKey = None)

\* C17: every call of build() generates its salt exactly once, after SCAN
\* and before DERIVE, and derives the master key exactly once, from that
\* salt: the salt in keySalt from DERIVE on is the one this call has
\* generated, it is the salt of the master key and the keySalt handed to
\* webpack, and it changes nowhere else; a second call of build() generates
\* a salt of its own
C17_OneSaltPerBuild == []C17_State /\ [][C17_Step]_vars

\* the second build() on a Builder has completed with a salt of its own
C17_Witness ==
    /\ builds = 2 /\ pc = "done"
    /\ saltOf = 2 /\ IsSet(appParams)
    /\ Len(content) = 1


\* C18 as stated: the path of every descriptor is relative to the content
\* root, has '/' as its only separator whatever the separator of the
\* platform is, and is the path of no other descriptor of the build
C18_PathsRelativeForwardSlashUnique ==
    pc = "scanned" =>
        /\ \A k \in 1..Len(content) :
             /\ content[k].path # <<>>
             /\ content[k].path[1] \notin Seps
             /\ \A j \in 1..Len(content[k].path) : content[k].path[j] # "\\"
        /\ \A j, k \in 1..Len(content) :
             content[j].path = content[k].path => j = k


(***************************************************************************)
(* The init command (InitCommand.run)                                      *)
(*                                                                         *)
(* initCmd.cwd is the set of entries of the working directory, before what *)
(* it was when the command started, content and dist the two flags.  The   *)
(* command exists in two versions, one of which writes welcome.md.         *)
(***************************************************************************)
ConfigFile == "hereditas.json"
WelcomeFile == "welcome.md"
NotEmptyError == Some("Directory isn't empty; aborting")

\* what the working directory can hold when the command is started
OldEntries == { ".git", "notes.txt", "content", ConfigFile }

InitInit ==
    /\ \E old \in SUBSET OldEntries, c \in {"content", "in"},
          d \in {"dist", "out", "in"}, w \in BOOLEAN :
         initCmd = [pc |-> "readdir", cwd |-> old, before |-> old,
                    content |-> c, dist |-> d, welcome |-> w, error |-> None]
    /\ Constructed([kdf |-> "pbkdf2", contentDir |-> Dir(<<>>, TRUE, <<>>),
                    pathSep |-> "/", distDir |-> [n \in FileNames |-> None]])
    /\ call = NoCall

\* the variables the init command leaves alone
InitCmdOnly ==
    UNCHANGED <<pc, step, kdf, contentDir, pathSep, distDir, keySalt,
                indexTag, hasErrors, content, masterKey, result, i, cur,
                streams, uncaught, trace, error, appParams, webpackStats,
                builds, saltOf, drawn, call>>

\* run() ends with an error
InitAbort(err) == [initCmd EXCEPT !.pc = "failed", !.error = err]

\* as InitReaddir, without the test of files.length
InitReaddir_NoCheck ==
    /\ initCmd.pc = "readdir"
    /\ initCmd' = [initCmd EXCEPT !.pc = "mkdirContent"]
    /\ InitCmdOnly

\* fs.readdir('.') returns: with entries this.error(...) ends the command,
\* without entries the command goes on
InitReaddir ==
    /\ initCmd.pc = "readdir"
    /\ initCmd' = IF initCmd.cwd # {} THEN InitAbort(NotEmptyError)
                  ELSE [initCmd EXCEPT !.pc = "mkdirContent"]
    /\ InitCmdOnly

\* fs.mkdir(dir) in the working directory: fails if the entry exists
mkdir(cmd, dir, next) ==
    IF dir \in cmd.cwd THEN [cmd EXCEPT !.pc = "failed", !.error = Some("EEXIST")]
    ELSE [cmd EXCEPT !.cwd = @ \cup {dir}, !.pc = next]

InitMkdirContent ==
    /\ initCmd.pc = "mkdirContent"
    /\ initCmd' = mkdir(initCmd, initCmd.content, "mkdirDist")
    /\ InitCmdOnly

InitMkdirDist ==
    /\ initCmd.pc = "mkdirDist"
    /\ initCmd' = mkdir(initCmd, initCmd.dist, "token")
    /\ InitCmdOnly

\* GenerateToken(21) resolves and the configuration is created in memory
InitToken ==
    /\ initCmd.pc = "token"
    /\ initCmd' = [initCmd EXCEPT !.pc = "save"]
    /\ InitCmdOnly

\* config.save() of a Config on a file name: the file is written
ConfigSave(entries, file) == entries \cup {file}

InitSave ==
    /\ initCmd.pc = "save"
    /\ initCmd' = [initCmd EXCEPT !.cwd = ConfigSave(@, ConfigFile),
                                  !.pc = IF initCmd.welcome THEN "welcome"
                                         ELSE "log"]
    /\ InitCmdOnly

\* fs.writeFile('welcome.md', ...), in the version that has it
InitWelcome ==
    /\ initCmd.pc = "welcome"
    /\ initCmd' = [initCmd EXCEPT !.cwd = @ \cup {WelcomeFile}, !.pc = "log"]
    /\ InitCmdOnly

\* this.log('Project initialized')
InitLog ==
    /\ initCmd.pc = "log"
    /\ initCmd' = [initCmd EXCEPT !.pc = "done"]
    /\ InitCmdOnly

\* a call of the file system or GenerateToken fails: run() rejects
InitIoFail ==
    /\ initCmd.pc \in {"readdir", "mkdirContent", "mkdirDist", "token", "save",
                       "welcome"}
    /\ initCmd' = InitAbort(Some("io"))
    /\ InitCmdOnly

NextInit ==
    \/ InitReaddir
    \/ InitMkdirContent
    \/ InitMkdirDist
    \/ InitToken
    \/ InitSave
    \/ InitWelcome
    \/ InitLog
    \/ InitIoFail

SpecInit == InitInit /\ [][NextInit]_vars

\* C19: the init command run in a working directory that is not empty
\* raises an error and ends without creating anything: the directory stays
\* as it was, no step after the check is taken and, unless the directory
\* could not even be read, the error is the one of the check; whatever is
\* created is created in a directory that was empty
C19_InitOnlyInEmptyDirectory ==
    /\ initCmd.before # {} =>
          /\ initCmd.cwd = initCmd.before
          /\ initCmd.pc \in {"readdir", "failed"}
          /\ initCmd.pc = "failed" => initCmd.error \in {NotEmptyError, Some("io")}
    /\ initCmd.cwd # initCmd.before => initCmd.before = {}

\* the command has ended with the error of the check in a directory that
\* held entries, none of them one the command creates
C19_Witness ==
    /\ initCmd.pc = "failed" /\ initCmd.error = NotEmptyError
    /\ initCmd.before = {".git"}
    /\ initCmd.cwd = {".git"}


(***************************************************************************)
(* The loop of _encryptContent                                             *)
(***************************************************************************)
\* the steps of an iteration in which _encryptStream is running
Encrypting == {"fileKey", "fileIV", "pipe"}

\* C20: during ENCRYPT_CONTENT the files are handled one at a time, in scan
\* order.  With i the file being handled: every file before i is done (it
\* is pre-processed, its encryption has returned the tag, dist and tag are
\* assigned); no file after i has been touched (no output stream, no
\* pre-processing, no dist, no tag); file i has neither dist nor tag, its
\* encryption runs only once its pre-processing has completed, and before
\* that nothing has been written for it
C20_OneFileAtATime ==
    pc = "ENCRYPT_CONTENT" =>
        /\ i \in 1..(Len(result) + 1)
        /\ Len(result) = Len(Scanned)
        /\ \A k \in 1..Len(result) : result[k].path = Scanned[k].path
        /\ Len(streams) = (IF step = "dist" THEN i - 1 ELSE i)
        /\ \A k \in 1..Len(result) :
             /\ k < i => /\ IsSet(result[k].display)
                         /\ IsSet(result[k].dist) /\ IsSet(result[k].tag)
                         /\ streams[k].promise = "resolved"
             /\ k >= i => result[k].dist = None /\ result[k].tag = None
             /\ k > i => result[k].display = None
        /\ (i <= Len(result) /\ step \in Encrypting) => IsSet(result[i].display)
        /\ (i <= Len(result) /\ step \in {"dist", "process"}) =>
              result[i].display = None
        /\ step = "process" =>
              /\ streams[i].written = <<>>
              /\ streams[i].promise = "none"

\* the second of two files is being encrypted, after its pre-processing,
\* and the first is done
C20_Witness ==
    /\ pc = "ENCRYPT_CONTENT" /\ step = "pipe"
    /\ Len(result) = 2 /\ i = 2
    /\ IsSet(result[1].tag) /\ IsSet(result[2].display)
    /\ result[2].tag = None


(***************************************************************************)
(* The draws of file keys and IVs                                          *)
(***************************************************************************)
\* the item was made with the file key and the IV of the draw d
UsesDraw(it, d) ==
    /\ it.item \in {"wrappedKey", "ciphertext"} => it.key = d.key
    /\ it.item \in {"iv", "ciphertext"} => it.iv = d.iv

C21_State ==
    /\ Len(drawn) <= Len(streams)
    /\ \A n \in 1..Len(streams) : streams[n].written # <<>> =>
          /\ n <= Len(drawn)
          /\ drawn[n].key # 0 /\ drawn[n].iv # 0
          /\ \A k \in 1..Len(streams[n].written) :
                UsesDraw(streams[n].written[k], drawn[n])
    /\ (pc \in {"ENCRYPT_CONTENT", "ENCRYPT_INDEX"}
          /\ step \in {"fileKey", "fileIV"}) =>
          streams[cur.out].written = <<>>
    /\ pc \in {"BUNDLE", "done"} =>
          /\ Len(drawn) = Len(content) + 1
          /\ \A n \in 1..Len(drawn) : drawn[n].key # 0 /\ drawn[n].iv # 0

C21_Step ==
    drawn' # drawn =>
        \/ /\ step = "fileKey" /\ step' = "fileIV"
           /\ Len(drawn') = Len(drawn) + 1
           /\ SubSeq(drawn', 1, Len(drawn)) = drawn
           /\ drawn'[Len(drawn')].key # 0 /\ drawn'[Len(drawn')].iv = 0
        \/ /\ step = "fileIV" /\ step' = "pipe"
           /\ Len(drawn') = Len(drawn)
           /\ \A n \in 1..Len(drawn) :
                /\ drawn'[n].key = drawn[n].key
                /\ n < Len(drawn) => drawn'[n].iv = drawn[n].iv
           /\ drawn[Len(drawn)].iv = 0 /\ drawn'[Len(drawn)].iv # 0
        \/ pc \in {"done", "rejected"} /\ pc' = "CLEAN" /\ drawn' = <<>>

\* C21: every call of _encryptStream draws one file key and one IV of its
\* own before it writes anything: the draws happen one at a time, key then
\* IV, once per call; a build over n files that reaches webpack has made
\* n + 1 draws of each; and whatever is written to an output is wrapped or
\* encrypted with the key and the IV drawn by the call for that output, not
\* with those of the call for another output
C21_OwnKeyAndIvPerOutput == []C21_State /\ [][C21_Step]_vars

\* a build of two files has completed after three draws of key and IV
C21_Witness ==
    /\ pc = "done" /\ Len(content) = 2
    /\ Len(drawn) = 3 /\ drawn[3].iv # 0
    /\ Len(streams[3].written) = 3


(***************************************************************************)
(* Termination of build()                                                  *)
(*                                                                         *)
(* The event loop runs every callback that is due: a step of the build or  *)
(* of a stream that stays possible is eventually taken.                    *)
(***************************************************************************)
SpecLive == InitRebuild /\ [][Next]_vars /\ WF_vars(Next)

\* build() has resolved or rejected
Settled == pc \in {"done", "rejected"}

\* C22 as stated: under fair scheduling of the callbacks every call of
\* build() eventually resolves or rejects, whatever events the streams emit
C22_BuildSettles == (pc = "CLEAN") ~> Settled


\* C23 as stated: once _encryptStream has resolved with the tag, everything
\* written to the output stream has reached the file and the stream has
\* finished; so while the next file is handled, and while webpack runs, no
\* earlier output is still being written
C23_ResolvedAfterFinish ==
    /\ \A n \in 1..Len(streams) :
          streams[n].promise = "resolved" => StreamFinished(streams[n])
    /\ pc \in {"ENCRYPT_CONTENT", "ENCRYPT_INDEX"} =>
          \A n \in 1..Len(streams) :
             n # cur.out => (StreamFinished(streams[n]) \/ streams[n].promise = "none")
    /\ pc = "BUNDLE" =>
          \A n \in 1..Len(streams) : StreamFinished(streams[n])


\* the output stream n emits 'error' in this step, while the call it was
\* created for awaits the pre-processing or the draw of the file key or IV
\* and _encryptStream has not registered its listeners yet
EarlyStreamError(n) ==
    /\ pc \in {"ENCRYPT_CONTENT", "ENCRYPT_INDEX"}
    /\ step \in {"process", "fileKey", "fileIV"}
    /\ n = cur.out
    /\ streams[n].promise = "none"
    /\ ~streams[n].errored /\ streams'[n].errored

\* C24 as stated: an error of an output stream between its creation and the
\* registration of the error listeners of _encryptStream makes build()
\* reject with that error; it is not lost and not thrown outside the
\* promise of build()
C24_EarlyStreamErrorRejects ==
    [][\A n \in 1..Len(streams) :
          EarlyStreamError(n) =>
             (pc' = "rejected" /\ error' = Some("outStream") /\ ~uncaught')]_vars


\* C25 as stated: the output directory holds a file named by a dist value
\* only for a content file whose pre-processing has succeeded; a build that
\* is aborted by a failed pre-processing leaves no file for that content file
C25_DistFileOnlyAfterProcess ==
    /\ \A n \in 1..Len(streams) :
          (n <= Len(result) /\ OwnFile(n) /\ IsSet(distDir[streams[n].name]))
             => IsSet(result[n].display)
    /\ (pc = "rejected" /\ error = Some("process") /\ OwnFile(cur.out)) =>
          distDir[cur.dist] = None


\* C26 as stated: after a call of build() that completes, the first or a
\* later one on the same Builder, hasErrors is true exactly if webpack has
\* reported errors in that call
C26_HasErrorsOfThisBuild ==
    pc = "done" => hasErrors = Get(webpackStats).hasErrors

====
